---- MODULE Spec2Model ----
(***************************************************************************)
(* Model of scripts/build.js (the "robusto" variant, src/scripts/build.js  *)
(* lines 242-477): the merge engine (normalize, deduplicate, rank, reserve *)
(* videos, cap) and the main script around it (read the previous feed,     *)
(* fan the fetches out and in, publish / retain / fail).                   *)
(*                                                                         *)
(* JavaScript values are represented as follows.                           *)
(*   - a string is a TLA+ string; the value undefined is the reserved      *)
(*     string Undefined, which no input string equals;                     *)
(*   - a raw XML field (guid, link) is a record [k, v]: k = "undef" for a  *)
(*     missing tag, "str" for a text node v, "obj" for an element with     *)
(*     attributes, whose text (guid._) or href (link.href) is v;           *)
(*   - a date value is a record [k, t]: "undef", "empty" (the string ""),  *)
(*     "bad" (an unparsable string), "rfc" (a parsable non-ISO string for  *)
(*     the instant t) or "iso" (the ISO-8601 string of the instant t);     *)
(*   - description, image and region are carried through buildFeed         *)
(*     without being read by it and are left out of the records.           *)
(***************************************************************************)
EXTENDS FiniteSets, Integers, Sequences, TLC

\* ----- Config (scaled: the script uses 800 and 100; the model keeps
\* MIN_VIDEOS < MAX_ITEMS, which is what buildFeed's arithmetic depends on)
MAX_ITEMS == 4
MIN_VIDEOS == 2

\* fetchText / fetchJSON: retries = 2, attempts i = 0..retries
RETRIES == 2

\* ----- Bounds of the model
MaxPool == 5      \* records gathered in one run of the merge engine
MaxDate == 2      \* instants 0..MaxDate; 0 is new Date(0), the epoch
MaxRaw == 3       \* raw RSS/Atom items normalized in one run
MaxDated == 2     \* items and videos of one run of the date normalization

Undefined == "<undefined>"

Min(a, b) == IF a <= b THEN a ELSE b
Max(a, b) == IF a >= b THEN a ELSE b

\* JavaScript truthiness of a string-or-undefined value (x || y)
Truthy(s) == s # Undefined /\ s # ""
Or(a, b) == IF Truthy(a) THEN a ELSE b

\* ----- Helpers -----
Iso(t) == [k |-> "iso", t |-> t]

\* new Date(v).getTime(): -1 stands for NaN
GetTime(v) == IF v.k \in {"rfc", "iso"} THEN v.t ELSE -1

\* variant: an invalid date is formatted as it is, with no fallback
toISOUnguarded(v) == Iso(GetTime(v))

\* toISO: Number.isNaN(d.getTime()) ? new Date(0).toISOString() : d.toISOString()
toISO(v) == IF GetTime(v) = -1 THEN Iso(0) ELSE Iso(GetTime(v))

\* byDateDesc(a, b) = new Date(b.date) - new Date(a.date)
byDateDesc(a, b) == GetTime(b.date) - GetTime(a.date)

\* keyOf: x.id ?? x.guid ?? x.url ?? x.link ?? x.permalink ?? x.title ?? JSON.stringify(x).
\* The records buildFeed builds (lines 409-417) have no guid field and always
\* have a string url, so the chain ends at url.
keyOf(x) == IF x.id # Undefined THEN x.id ELSE x.url

\* Array.prototype.sort(byDateDesc): stable (Node 20), so a record is placed
\* after every record that does not compare after it.
RECURSIVE InsertSorted(_, _)
InsertSorted(s, x) ==
  IF s = <<>> THEN <<x>>
  ELSE IF byDateDesc(Head(s), x) <= 0 THEN <<Head(s)>> \o InsertSorted(Tail(s), x)
  ELSE <<x>> \o s

RECURSIVE SortByDateDesc(_)
SortByDateDesc(s) ==
  IF s = <<>> THEN <<>>
  ELSE InsertSorted(SortByDateDesc(SubSeq(s, 1, Len(s) - 1)), s[Len(s)])

Slice(s, n) == SubSeq(s, 1, Min(n, Len(s)))

Range(s) == {s[i] : i \in 1..Len(s)}

IsVideo(x) == x.type = "video"
NotVideo(x) == x.type # "video"

Keys(s) == {keyOf(s[i]) : i \in 1..Len(s)}

\* ----- buildFeed, lines 409-417: the minimal re-normalization
MapItem(x) ==
  [id |-> x.id, type |-> x.type, source |-> Or(x.source, ""),
   title |-> Or(x.title, ""), url |-> Or(x.url, ""), date |-> toISO(x.date)]

MapAll(s) == [i \in 1..Len(s) |-> MapItem(s[i])]

\* ----- buildFeed, lines 419-421: dedup, first seen wins
RECURSIVE DedupLoop(_, _, _)
DedupLoop(s, seen, out) ==
  IF s = <<>> THEN out
  ELSE IF keyOf(Head(s)) \in seen THEN DedupLoop(Tail(s), seen, out)
  ELSE DedupLoop(Tail(s), seen \cup {keyOf(Head(s))}, Append(out, Head(s)))

\* variant: the last record of each key survives
RECURSIVE DedupLastLoop(_, _, _)
DedupLastLoop(s, seen, out) ==
  IF s = <<>> THEN out
  ELSE IF keyOf(s[Len(s)]) \in seen
       THEN DedupLastLoop(SubSeq(s, 1, Len(s) - 1), seen, out)
       ELSE DedupLastLoop(SubSeq(s, 1, Len(s) - 1), seen \cup {keyOf(s[Len(s)])},
                          <<s[Len(s)]>> \o out)

DedupLastWins(s) == DedupLastLoop(s, {}, <<>>)
Dedup(s) == DedupLoop(s, {}, <<>>)

\* ----- buildFeed, lines 425-441: reserve videos, fill, cap
KeepV(videos) == Slice(videos, Min(MIN_VIDEOS, Len(videos)))

Remain(keepV) == Max(0, MAX_ITEMS - Len(keepV))

\* for (const it of others) { if (taken.has(k)) continue; fill.push(it);
\*                            if (fill.length >= remain) break; }
RECURSIVE FillLoop(_, _, _, _)
FillLoop(others, taken, remain, fill) ==
  IF others = <<>> THEN fill
  ELSE IF keyOf(Head(others)) \in taken THEN FillLoop(Tail(others), taken, remain, fill)
  ELSE IF Len(fill) + 1 >= remain THEN Append(fill, Head(others))
  ELSE FillLoop(Tail(others), taken, remain, Append(fill, Head(others)))

\* variant: the loop never breaks
FillNoBudget(others, taken, remain) == SelectSeq(others, LAMBDA x : keyOf(x) \notin taken)
Fill(others, taken, remain) == FillLoop(others, taken, remain, <<>>)

\* out, after out.sort(byDateDesc) (line 423): the deduplicated, ranked pool
Pool(raw) == SortByDateDesc(Dedup(MapAll(raw)))

\* variant: the reserved videos and the fill are returned as concatenated
AllocateUnsorted(out) ==
  LET videos == SelectSeq(out, IsVideo)
      others == SelectSeq(out, NotVideo)
      keepV == KeepV(videos)
  IN Slice(keepV \o Fill(others, Keys(keepV), Remain(keepV)), MAX_ITEMS)

\* lines 426-441 on the ranked pool
Allocate(out) ==
  LET videos == SelectSeq(out, IsVideo)
      others == SelectSeq(out, NotVideo)
      keepV == KeepV(videos)
      remain == Remain(keepV)
      taken == Keys(keepV)
      fill == Fill(others, taken, remain)
  IN Slice(SortByDateDesc(keepV \o fill), MAX_ITEMS)

buildFeedOf(gathered) == Allocate(Pool(gathered))

\* ----- Normalizers -----
\* A parsed item has the fields title, link, guid, pubDate, updated; the other
\* tags normalizeRssItem probes (media:title, dc:title, published, dc:date,
\* dc:created) are absent from the items of the model.
U == [k |-> "undef", v |-> Undefined]
Str(v) == [k |-> "str", v |-> v]
Obj(v) == [k |-> "obj", v |-> v]

\* raw.guid?._ || raw.guid   and   raw.link?.href || raw.link
Text(f) == IF f.k = "undef" THEN Undefined ELSE f.v

\* String.prototype.trim on the titles of the model
Trim(s) == IF s = " t1 " THEN "t1" ELSE s

\* a date value is falsy when undefined or ""
DateOr(a, b) == IF a.k \in {"undef", "empty"} THEN b ELSE a

\* variant: the id is prefixed with the name of the source
normalizeRssItemPerSource(r, type, sourceName) ==
  LET title == Or(IF r.title = Undefined THEN Undefined ELSE Trim(r.title), "")
      link == Or(Text(r.link), Or(Text(r.guid), ""))
      date == DateOr(r.pubDate, DateOr(r.updated, [k |-> "empty", t |-> 0]))
  IN [id |-> sourceName \o ":" \o Or(Text(r.guid), Or(link, title)), type |-> type,
      source |-> Or(sourceName, ""), title |-> Trim(title), url |-> link,
      date |-> toISO(date)]

\* lines 328-347
normalizeRssItem(r, type, sourceName) ==
  LET title == Or(IF r.title = Undefined THEN Undefined ELSE Trim(r.title), "")
      link == Or(Text(r.link), Or(Text(r.guid), ""))
      date == DateOr(r.pubDate, DateOr(r.updated, [k |-> "empty", t |-> 0]))
  IN [id |-> Or(Text(r.guid), Or(link, title)), type |-> type,
      source |-> Or(sourceName, ""), title |-> Trim(title), url |-> link,
      date |-> toISO(date)]

\* pullYouTubeChannel, lines 381-390, for one item of kind youtube#video:
\* i.id.videoId, snippet.channelTitle, snippet.title, snippet.publishedAt
normalizeVideo(v) ==
  [id |-> v.videoId, type |-> "video", source |-> Or(v.channelTitle, "YouTube"),
   title |-> Or(v.title, ""),
   url |-> "https://www.youtube.com/watch?v="
             \o (IF v.videoId = Undefined THEN "undefined" ELSE v.videoId),
   date |-> toISO(v.publishedAt)]

\* ----- State -----
VARIABLES
  pc,        \* position of the script
  xml,       \* parsed items of the sources, before normalization
  raw,       \* [...rss, ...vids]: the normalized records gathered from the sources
  items,     \* the value buildFeed returned
  disk,      \* docs/feed.json
  prior,     \* docs/feed.json as it was when the run started
  previous,  \* the value readOldFeed returned
  resp,      \* how each source answers: failing attempts, malformed document
  ytKey,     \* whether YT_API_KEY or GOOGLE_API_KEY is set
  slots,     \* the promise of each pull: pending, fulfilled, rejected
  tries,     \* the loop index i of each fetchText / fetchJSON
  order,     \* the sources in the order their pulls settled
  rss,       \* the flattened result of the first Promise.all
  clock,     \* the time nowISO() reads
  payload,   \* the value being written to docs/feed.json
  exitCode,  \* the status the process ended with
  outcome    \* what main decided: publish, retain, fail; or how it broke

runVars == <<disk, prior, previous, resp, ytKey, slots, tries, order, rss, clock,
             payload, exitCode, outcome>>
vars == <<pc, xml, raw, items, runVars>>

\* ----- Persistencia -----
File(kind) == [kind |-> kind, generatedAt |-> 0, count |-> 0, items |-> <<>>, fmt |-> "none"]
NoFeed == [kind |-> "null", generatedAt |-> 0, count |-> 0, items |-> <<>>]

\* readOldFeed, lines 445-453. readFile throws on an absent or unreadable
\* file, JSON.parse on a text that is no JSON (a truncated file included);
\* any other JSON value matches neither test.
readOldFeed(d, now) ==
  IF d.kind = "object" /\ d.items # <<>>
  THEN [kind |-> "object", generatedAt |-> d.generatedAt, count |-> d.count, items |-> d.items]
  ELSE IF d.kind = "array" /\ d.items # <<>>
  THEN [kind |-> "object", generatedAt |-> now, count |-> Len(d.items), items |-> d.items]
  ELSE NoFeed

\* JSON.stringify(value, null, 2) of an object { generatedAt, count, items }
Stringify(v) ==
  [kind |-> v.kind, generatedAt |-> v.generatedAt, count |-> v.count, items |-> v.items,
   fmt |-> "indent2"]

\* writeFeed, line 457
Payload(built, now) ==
  [kind |-> "object", generatedAt |-> now, count |-> Len(built), items |-> built]

\* variant: the previous feed is written back with a new generatedAt
RetainStamped(prev, now) == [prev EXCEPT !.generatedAt = now]
\* main, line 469: what is written back when the build is empty
RetainPayload(prev, now) == prev

\* variant: writeFeed(items) whatever was built
MainAlwaysPublish(built, prev) == "publish"

\* main, lines 466-476
MainOutcome(built, prev) ==
  IF Len(built) = 0 THEN (IF prev # NoFeed THEN "retain" ELSE "fail") ELSE "publish"

\* variant: keeping the previous feed counts as success
StatusRetainSucceeds(o) == IF o = "fail" THEN 1 ELSE 0
\* process.exit(1) of line 473, or the end of the script
StatusAfter(o) == IF o = "publish" THEN 0 ELSE 1

\* ----- Sources -----
Articles == <<"A1", "A2">>
Podcasts == <<"P1">>
Channels == <<"Y1", "Y2">>
RssSources == Articles \o Podcasts
Sources == Range(RssSources) \cup Range(Channels)

TypeOf(s) ==
  IF s \in Range(Articles) THEN "article"
  ELSE IF s \in Range(Podcasts) THEN "podcast" ELSE "video"

Rfc(t) == [k |-> "rfc", t |-> t]
NoDate == [k |-> "undef", t |-> 0]

\* what each source serves when its fetch succeeds. A1 and A2 carry the same
\* guid, P1 mirrors the link of A1 without a guid, Y1 and Y2 both list v1.
Document(s) ==
  CASE s = "A1" -> <<[title |-> "t1", guid |-> Str("g1"), link |-> Str("u1"),
                      pubDate |-> Rfc(1), updated |-> NoDate]>>
    [] s = "A2" -> <<[title |-> " t1 ", guid |-> Obj("g1"), link |-> Obj("u2"),
                      pubDate |-> NoDate, updated |-> Rfc(2)]>>
    [] s = "P1" -> <<[title |-> Undefined, guid |-> U, link |-> Str("u1"),
                      pubDate |-> [k |-> "bad", t |-> 0], updated |-> NoDate]>>
    [] s = "Y1" -> <<[videoId |-> "v1", channelTitle |-> "Y1", title |-> "t1",
                      publishedAt |-> Iso(2)],
                     [videoId |-> "v2", channelTitle |-> "Y1", title |-> "t1",
                      publishedAt |-> Iso(1)]>>
    [] s = "Y2" -> <<[videoId |-> "v1", channelTitle |-> "Y2", title |-> "t1",
                      publishedAt |-> Iso(2)],
                     [videoId |-> "v3", channelTitle |-> Undefined, title |-> "t1",
                      publishedAt |-> Iso(0)]>>

\* a source answers after `fails` failing attempts (more than RETRIES: never);
\* an RSS/Atom source may answer with a document parseFeedXML rejects
Answers(s) ==
  {[fails |-> f, malformed |-> FALSE] : f \in {0, 1, RETRIES + 1}}
  \cup (IF TypeOf(s) = "video" THEN {} ELSE {[fails |-> 0, malformed |-> TRUE]})

Pending == [st |-> "pending", recs |-> <<>>]
Fulfilled(recs) == [st |-> "fulfilled", recs |-> recs]
Rejected == [st |-> "rejected", recs |-> <<>>]

Records(s) ==
  [i \in 1..Len(Document(s)) |->
    IF TypeOf(s) = "video" THEN normalizeVideo(Document(s)[i])
    ELSE normalizeRssItem(Document(s)[i], TypeOf(s), s)]

\* variant: the error of the fetch or the parse is not caught
PullNoCatch(s, ok) == IF ok THEN Fulfilled(Records(s)) ELSE Rejected

\* pullRssOrAtom, lines 349-360, and pullYouTubeChannel(...).catch(() => []),
\* line 406: what the promise of source s settles with, given whether the
\* fetch and the parse went through
Pull(s, ok) == IF ok THEN Fulfilled(Records(s)) ELSE Fulfilled(<<>>)

\* (await Promise.all(jobs)).flat(): the results in the order of the jobs
RECURSIVE FlatInOrder(_, _)
FlatInOrder(list, sl) ==
  IF list = <<>> THEN <<>> ELSE sl[Head(list)].recs \o FlatInOrder(Tail(list), sl)

\* variant: the results in the order the jobs settled
FlatAsSettled(list, sl, ord) == FlatInOrder(SelectSeq(ord, LAMBDA s : s \in Range(list)), sl)
Flat(list, sl, ord) == FlatInOrder(list, sl)

OldItems ==
  <<[id |-> "old", type |-> "article", source |-> "A1", title |-> "t0", url |-> "u0",
     date |-> Iso(1)]>>

Collection(kind, its, fmt) ==
  [kind |-> kind, generatedAt |-> 0, count |-> IF kind = "object" THEN Len(its) ELSE 0,
   items |-> its, fmt |-> fmt]

\* docs/feed.json before the run: absent, unreadable, not JSON, another JSON
\* value, or a collection in one of its two shapes, empty or not
DiskStates ==
  {File("absent"), File("unreadable"), File("garbage"), File("other")}
  \cup {Collection(k, <<>>, "indent2") : k \in {"object", "array"}}
  \cup {Collection(k, OldItems, "indent2") : k \in {"object", "array"}}
  \cup {Collection("object", OldItems, "compact")}

\* ----- Main -----
Init ==
  /\ pc = "start"
  /\ xml = <<>>
  /\ raw = <<>>
  /\ items = <<>>
  /\ disk \in DiskStates
  /\ prior = disk
  /\ previous = NoFeed
  /\ resp \in [Sources -> UNION {Answers(s) : s \in Sources}]
  /\ \A s \in Sources : resp[s] \in Answers(s)
  /\ ytKey \in BOOLEAN
  /\ slots = [s \in Sources |-> Pending]
  /\ tries = [s \in Sources |-> 0]
  /\ order = <<>>
  /\ rss = <<>>
  /\ clock = 1
  /\ payload = NoFeed
  /\ exitCode = -1
  /\ outcome = "none"

\* line 463: const previous = await readOldFeed()
ReadOldFeed ==
  /\ pc = "start"
  /\ previous' = readOldFeed(disk, clock)
  /\ clock' = clock + 1
  /\ pc' = "rss"
  /\ UNCHANGED <<xml, raw, items, disk, prior, resp, ytKey, slots, tries, order, rss,
                 payload, exitCode, outcome>>

\* one turn of the loop of fetchText / fetchJSON for source s, and, when it
\* returns or throws for good, the rest of the pull
Attempt(s) ==
  /\ slots[s].st = "pending"
  /\ IF tries[s] < resp[s].fails /\ tries[s] < RETRIES
     THEN /\ tries' = [tries EXCEPT ![s] = @ + 1]
          /\ UNCHANGED <<slots, order>>
     ELSE /\ slots' = [slots EXCEPT ![s] =
                        Pull(s, tries[s] >= resp[s].fails /\ ~resp[s].malformed)]
          /\ order' = Append(order, s)
          /\ UNCHANGED tries
  /\ UNCHANGED <<pc, xml, raw, items, disk, prior, previous, resp, ytKey, rss, clock,
                 payload, exitCode, outcome>>

AttemptRss(s) == pc = "rss" /\ s \in Range(RssSources) /\ Attempt(s)
AttemptYt(s) == pc = "yt" /\ s \in Range(Channels) /\ Attempt(s)

Settled(list) == \A s \in Range(list) : slots[s].st # "pending"
AnyRejected(list) == \E s \in Range(list) : slots[s].st = "rejected"

\* a rejected Promise.all rejects buildFeed and the top-level await
Throw ==
  /\ pc' = "exit"
  /\ exitCode' = 1
  /\ outcome' = "threw"
  /\ UNCHANGED <<xml, raw, items, disk, prior, previous, resp, ytKey, slots, tries,
                 order, rss, clock, payload>>

\* lines 397-407: the first Promise.all resolved; videos are pulled only with
\* a key and a channel
AwaitRss ==
  /\ pc = "rss"
  /\ AnyRejected(RssSources) \/ Settled(RssSources)
  /\ IF AnyRejected(RssSources) THEN Throw
     ELSE /\ rss' = Flat(RssSources, slots, order)
          /\ IF ytKey /\ Len(Channels) > 0
             THEN pc' = "yt" /\ raw' = raw
             ELSE pc' = "merge" /\ raw' = rss'
          /\ UNCHANGED <<xml, items, disk, prior, previous, resp, ytKey, slots, tries,
                         order, clock, payload, exitCode, outcome>>

\* lines 406-409: the second Promise.all resolved
AwaitYt ==
  /\ pc = "yt"
  /\ AnyRejected(Channels) \/ Settled(Channels)
  /\ IF AnyRejected(Channels) THEN Throw
     ELSE /\ raw' = rss \o Flat(Channels, slots, order)
          /\ pc' = "merge"
          /\ UNCHANGED <<xml, items, disk, prior, previous, resp, ytKey, slots, tries,
                         order, rss, clock, payload, exitCode, outcome>>

\* the defaults of the run's variables where only the merge engine runs
Idle ==
  /\ disk = File("absent")
  /\ prior = disk
  /\ previous = NoFeed
  /\ resp = [s \in Sources |-> [fails |-> 0, malformed |-> FALSE]]
  /\ ytKey = TRUE
  /\ slots = [s \in Sources |-> Pending]
  /\ tries = [s \in Sources |-> 0]
  /\ order = <<>>
  /\ rss = <<>>
  /\ clock = 1
  /\ payload = NoFeed
  /\ exitCode = -1
  /\ outcome = "none"

\* ----- The merge engine alone, on gathered records -----
\* a gathered record as normalizeRssItem / pullYouTubeChannel build it; the
\* i-th record of a run has its own id
Gathered(i, type, t) ==
  [id |-> ToString(i), type |-> type, source |-> type, title |-> "",
   url |-> "u" \o ToString(i), date |-> Iso(t)]

\* rss before vids, articles before podcasts (lines 397-409): the first a
\* records are articles, the next p podcasts, the rest videos
InitBuild ==
  /\ pc = "merge"
  /\ xml = <<>>
  /\ items = <<>>
  /\ Idle
  /\ \E n \in 0..MaxPool : \E a \in 0..n : \E p \in 0..(n - a) :
       \E d \in [1..n -> 0..MaxDate] :
         raw = [i \in 1..n |->
                 Gathered(i, IF i <= a THEN "article"
                             ELSE IF i <= a + p THEN "podcast" ELSE "video", d[i])]

\* buildFeed, lines 409-441: the synchronous tail after the fetches resolved
Merge ==
  /\ pc = "merge"
  /\ items' = buildFeedOf(raw)
  /\ pc' = "main"
  /\ UNCHANGED <<xml, raw, runVars>>

\* line 466, items.length === 0 with no previous feed: nothing is written
MainFailEmpty ==
  /\ pc = "main"
  /\ MainOutcome(items, previous) = "fail"
  /\ outcome' = "fail"
  /\ exitCode' = StatusAfter("fail")
  /\ pc' = "exit"
  /\ UNCHANGED <<xml, raw, items, disk, prior, previous, resp, ytKey, slots, tries,
                 order, rss, clock, payload>>

\* lines 467-469: fs.writeFile(FEED_PATH, JSON.stringify(previous, null, 2)) starts
MainRetain ==
  /\ pc = "main"
  /\ MainOutcome(items, previous) = "retain"
  /\ outcome' = "retain"
  /\ payload' = RetainPayload(previous, clock)
  /\ pc' = "open"
  /\ UNCHANGED <<xml, raw, items, disk, prior, previous, resp, ytKey, slots, tries,
                 order, rss, clock, exitCode>>

\* line 476, writeFeed(items): mkdir is under way
MainPublish ==
  /\ pc = "main"
  /\ MainOutcome(items, previous) = "publish"
  /\ outcome' = "publish"
  /\ pc' = "mkdir"
  /\ UNCHANGED <<xml, raw, items, disk, prior, previous, resp, ytKey, slots, tries,
                 order, rss, clock, payload, exitCode>>

\* writeFeed, lines 456-458: mkdir returned, the payload is built
Mkdir ==
  /\ pc = "mkdir"
  /\ payload' = Payload(items, clock)
  /\ clock' = clock + 1
  /\ pc' = "open"
  /\ UNCHANGED <<xml, raw, items, disk, prior, previous, resp, ytKey, slots, tries,
                 order, rss, exitCode, outcome>>

\* fs.writeFile opens the file with flag 'w': it is created or truncated
WriteOpen ==
  /\ pc = "open"
  /\ disk' = File("garbage")
  /\ pc' = "write"
  /\ UNCHANGED <<xml, raw, items, prior, previous, resp, ytKey, slots, tries,
                 order, rss, clock, payload, exitCode, outcome>>

\* the data is written and the file closed; the script ends or exits
WriteDone ==
  /\ pc = "write"
  /\ disk' = Stringify(payload)
  /\ exitCode' = StatusAfter(outcome)
  /\ pc' = "exit"
  /\ UNCHANGED <<xml, raw, items, prior, previous, resp, ytKey, slots, tries,
                 order, rss, clock, payload, outcome>>

\* mkdir, open or write fails: the rejection is not handled, node exits with 1
IoError ==
  /\ pc \in {"mkdir", "open", "write"}
  /\ outcome' = "ioError"
  /\ exitCode' = 1
  /\ pc' = "exit"
  /\ UNCHANGED <<xml, raw, items, disk, prior, previous, resp, ytKey, slots, tries,
                 order, rss, clock, payload>>

Next ==
  \/ ReadOldFeed
  \/ \E s \in Sources : AttemptRss(s)
  \/ AwaitRss
  \/ \E s \in Sources : AttemptYt(s)
  \/ AwaitYt
  \/ Merge
  \/ MainFailEmpty
  \/ MainRetain
  \/ MainPublish
  \/ Mkdir
  \/ WriteOpen
  \/ WriteDone
  \/ IoError

Spec == Init /\ [][Next]_vars

NextBuild == Merge

SpecBuild == InitBuild /\ [][NextBuild]_vars

\* ----- Normalization and deduplication, on parsed items -----
Guids == {U, Str("g1"), Str("g2")}
Links == {U, Str("u1")}

\* the parsed items a source may return: every guid / link combination with a
\* title, a guid and a link carrying attributes, and items with neither guid
\* nor link whose title is missing or untrimmed
XmlItems ==
  {[title |-> "t1", guid |-> g, link |-> l] : g \in Guids, l \in Links}
  \cup {[title |-> "t1", guid |-> Obj("g1"), link |-> U],
        [title |-> "t1", guid |-> U, link |-> Obj("u1")]}
  \cup {[title |-> t, guid |-> U, link |-> U] : t \in {Undefined, " t1 "}}

\* the i-th item of a run is dated by its position, in one of the two date tags
Dated(x, i) ==
  LET date == [k |-> "rfc", t |-> i % (MaxDate + 1)]
      none == [k |-> "undef", t |-> 0]
  IN [title |-> x.title, guid |-> x.guid, link |-> x.link,
      pubDate |-> IF x.title = "t1" THEN date ELSE none,
      updated |-> IF x.title = "t1" THEN none ELSE date]

\* the parsed search results of the one video channel
VideoItems ==
  {[videoId |-> v, channelTitle |-> Undefined, title |-> "t1",
    publishedAt |-> [k |-> "iso", t |-> 1]] : v \in {"g1", Undefined}}

\* the article source A1 returns the first a items (at most one), the podcast
\* source P1 the others; at most one video follows them
InitNorm ==
  /\ pc = "norm"
  /\ raw = <<>>
  /\ items = <<>>
  /\ Idle
  /\ \E n \in 0..MaxRaw : \E a \in 0..Min(n, 1) :
       \E r \in [1..n -> XmlItems] :
         \E y \in {<<>>} \cup {<<v>> : v \in VideoItems} :
           xml = [i \in 1..n |->
                   [item |-> Dated(r[i], i),
                    type |-> IF i <= a THEN "article" ELSE "podcast",
                    name |-> IF i <= a THEN "A1" ELSE "P1"]]
                 \o [i \in 1..Len(y) |-> [item |-> y[i], type |-> "video", name |-> "Y1"]]

NormalizeOne(x) ==
  IF x.type = "video" THEN normalizeVideo(x.item)
  ELSE normalizeRssItem(x.item, x.type, x.name)

\* items.map(normalizeRssItem) in every pullRssOrAtom, the map of
\* pullYouTubeChannel, and the two .flat() of buildFeed
Normalize ==
  /\ pc = "norm"
  /\ raw' = [i \in 1..Len(xml) |-> NormalizeOne(xml[i])]
  /\ pc' = "merge"
  /\ UNCHANGED <<xml, items, runVars>>

NextNorm == Normalize \/ Merge

SpecNorm == InitNorm /\ [][NextNorm]_vars

\* ----- Date normalization, on parsed items -----
\* what a date tag or snippet.publishedAt may hold: nothing, the empty
\* string, a text Date cannot parse, or a parsable text, ISO-8601 or not
DateValues ==
  {NoDate, [k |-> "empty", t |-> 0], [k |-> "bad", t |-> 0]}
  \cup {Rfc(t) : t \in 0..MaxDate} \cup {Iso(t) : t \in 0..MaxDate}

\* an RSS/Atom item dated by pubDate alone, or by updated when pubDate is
\* missing or empty; a video dated by publishedAt (kept in pubDate here)
DateCases ==
  {[type |-> "article", pubDate |-> d, updated |-> NoDate] : d \in DateValues}
  \cup {[type |-> "article", pubDate |-> d, updated |-> u] :
          d \in {NoDate, [k |-> "empty", t |-> 0]}, u \in DateValues \ {NoDate}}
  \cup {[type |-> "video", pubDate |-> d, updated |-> NoDate] : d \in DateValues}

\* the i-th parsed item of a run, with a guid or videoId of its own
DatedEntry(c, i) ==
  IF c.type = "video"
  THEN [item |-> [videoId |-> "v" \o ToString(i), channelTitle |-> "Y1", title |-> "t1",
                  publishedAt |-> c.pubDate],
        type |-> "video", name |-> "Y1"]
  ELSE [item |-> [title |-> "t1", guid |-> Str("g" \o ToString(i)), link |-> U,
                  pubDate |-> c.pubDate, updated |-> c.updated],
        type |-> "article", name |-> "A1"]

\* the items of the article source A1, then the videos of the channel Y1
InitDate ==
  /\ pc = "norm"
  /\ raw = <<>>
  /\ items = <<>>
  /\ Idle
  /\ \E n \in 0..MaxDated : \E c \in [1..n -> DateCases] :
       /\ \A i, j \in 1..n : (i < j /\ c[i].type = "video") => c[j].type = "video"
       /\ xml = [i \in 1..n |-> DatedEntry(c[i], i)]

SpecDate == InitDate /\ [][NextNorm]_vars

\* ----- Properties of the run -----
AfterMerge == {"main", "mkdir", "open", "write", "exit"}

\* what is in a file, whatever its formatting
Content(d) == [kind |-> d.kind, generatedAt |-> d.generatedAt, count |-> d.count, items |-> d.items]

\* a previous feed that holds records, in either shape
Usable(d) == d.kind \in {"object", "array"} /\ d.items # <<>>

\* the run ended after writing the previous feed back
Retained == pc = "exit" /\ outcome = "retain" /\ items = <<>> /\ Usable(prior)

Persisted ==
  /\ disk = Stringify(payload)
  /\ disk.kind = "object"
  /\ disk.items = items
  /\ disk.count = Len(items)
  /\ disk.generatedAt > prior.generatedAt

\* C7: a run ends with status 0 exactly when buildFeed returned records and
\* they were written as the new feed, in place of any previous one; a run
\* whose build is empty ends with status 1, with or without a previous feed.
C7_RunStatus ==
  pc = "exit" =>
    /\ exitCode = 0 <=> (items # <<>> /\ Persisted)
    /\ exitCode = 0 => disk # prior
    /\ items = <<>> => exitCode = 1
    /\ exitCode \in {0, 1}

\* C7 witness: a successful run replaced a previous feed that held records.
C7_Witness ==
  /\ pc = "exit"
  /\ exitCode = 0
  /\ Usable(prior)
  /\ items # <<>>
  /\ Persisted

\* C8: an absent, unreadable, non-JSON or record-less previous feed reads as
\* no previous feed and the run goes on to main; once the build is empty the
\* file is never touched, the run ends with status 1, and no run ever writes
\* an empty collection.
C8_FailEmptyWritesNothing ==
  /\ (pc # "start" /\ ~Usable(prior)) => previous = NoFeed
  /\ (pc = "exit" /\ ~Usable(prior)) => outcome \in {"fail", "publish", "ioError"}
  /\ (pc \in AfterMerge /\ items = <<>> /\ ~Usable(prior)) =>
       /\ disk = prior
       /\ pc \in {"main", "exit"}
       /\ pc = "exit" => (outcome = "fail" /\ exitCode = 1)
  /\ (disk.kind \in {"object", "array"} /\ disk.items = <<>>) => disk = prior

\* C8 witness: with a previous feed that is no JSON and an empty build, the
\* run ended without writing.
C8_Witness ==
  /\ pc = "exit"
  /\ prior.kind = "garbage"
  /\ items = <<>>
  /\ outcome = "fail"
  /\ disk = prior

\* ----- Properties of the fan-out and fan-in -----
\* the pulls of a run, in declared order
Launched == RssSources \o (IF ytKey THEN Channels ELSE <<>>)

\* the source answers within its retries with a document that parses
Succeeds(s) == resp[s].fails <= RETRIES /\ ~resp[s].malformed

RECURSIVE Concat(_, _)
Concat(list, f) ==
  IF list = <<>> THEN <<>> ELSE f[Head(list)] \o Concat(Tail(list), f)

\* C9: whatever the order in which the pulls settled, buildFeed has returned the
\* merge of the sources' results taken in declared order: articles, then
\* podcasts, then channels.
C9_CompletionOrderIrrelevant ==
  pc = "main" =>
    items = buildFeedOf(Concat(Launched,
              [s \in Sources |-> IF Succeeds(s) THEN Records(s) ELSE <<>>]))

\* C9 witness: A2 settled before A1, both served their record of guid g1, and
\* the feed holds the record of A1.
C9_Witness ==
  /\ pc = "main"
  /\ Succeeds("A1") /\ Succeeds("A2")
  /\ \E i, j \in 1..Len(order) : i < j /\ order[i] = "A2" /\ order[j] = "A1"
  /\ \E i \in 1..Len(items) : items[i].id = "g1" /\ items[i].source = "A1"

\* C10: no run ends because a pull failed; when buildFeed has returned, every
\* pull it launched has settled fulfilled, a failed source with no record and
\* every other source with its own records, and the feed is the merge of the
\* sources that succeeded.
C10_FailureIsolated ==
  /\ pc = "exit" => outcome # "threw"
  /\ pc = "main" =>
       /\ \A s \in Range(Launched) :
            /\ slots[s].st = "fulfilled"
            /\ slots[s].recs = IF Succeeds(s) THEN Records(s) ELSE <<>>
       /\ items = buildFeedOf(Concat(SelectSeq(Launched, Succeeds),
                                     [s \in Sources |-> Records(s)]))

\* C10 witness: A1 failed after its retries, A2 served a malformed document,
\* and the feed holds the record of P1 and a video.
C10_Witness ==
  /\ pc = "main"
  /\ ytKey
  /\ resp["A1"].fails > RETRIES /\ tries["A1"] = RETRIES
  /\ resp["A2"].malformed
  /\ Succeeds("P1")
  /\ \E i \in 1..Len(items) : items[i].source = "P1"
  /\ \E i \in 1..Len(items) : items[i].type = "video"

\* ----- Properties of the deduplicator -----
\* the index of the first record of s that has the key of s[i]
FirstWithKey(s, i) == CHOOSE j \in 1..i :
  /\ keyOf(s[j]) = keyOf(s[i])
  /\ \A h \in 1..(j - 1) : keyOf(s[h]) # keyOf(s[i])

NoSharedKey(s) == \A i, j \in 1..Len(s) : i # j => keyOf(s[i]) # keyOf(s[j])

\* C4: no two records of the deduplicated sequence share a key, and so no two
\* records of the returned feed do; every key of the input is the key of
\* exactly one deduplicated record; and the deduplicated sequence is the
\* input restricted to the first record of each key, in input order.
C4_DedupFirstSeenWins ==
  pc = "main" =>
    LET all == MapAll(raw)
        d == Dedup(all)
        first == {i \in 1..Len(all) : FirstWithKey(all, i) = i}
    IN /\ NoSharedKey(d)
       /\ NoSharedKey(items)
       /\ {keyOf(all[i]) : i \in 1..Len(all)} = {keyOf(d[i]) : i \in 1..Len(d)}
       /\ Len(d) = Cardinality(first)
       /\ \A i \in first : d[Cardinality({h \in first : h <= i})] = all[i]

\* C4 witness: two different input records share a key, the later one is
\* dropped and the earlier one is in the feed.
C4_Witness ==
  /\ pc = "main"
  /\ \E i, j \in 1..Len(raw) :
       /\ i < j
       /\ keyOf(MapItem(raw[i])) = keyOf(MapItem(raw[j]))
       /\ MapItem(raw[i]) # MapItem(raw[j])
       /\ MapItem(raw[i]) \in Range(items)
       /\ MapItem(raw[j]) \notin Range(items)

\* two RSS/Atom items of different sources whose records have the same
\* non-empty url
Mirrored(i, j) ==
  /\ i < j
  /\ xml[i].type # "video" /\ xml[j].type # "video"
  /\ raw[i].source # raw[j].source
  /\ raw[i].url = raw[j].url
  /\ raw[i].url # ""

\* C5, as claimed: of two items of different sources with the same url,
\* whatever their guid and title, only one is in the returned feed.
C5_MirroredByUrlAlone ==
  pc = "main" =>
    \A i, j \in 1..Len(raw) :
      Mirrored(i, j) =>
        ~(MapItem(raw[i]) \in Range(items) /\ MapItem(raw[j]) \in Range(items))

\* C5, amended: of two items of different sources with the same url that also
\* have the same guid (or both none), the later one is neither in the
\* deduplicated pool nor in the feed; two records of the feed with the same
\* non-empty url have different ids.
C5_MirroredSameGuid ==
  pc = "main" =>
    /\ \A i, j \in 1..Len(raw) :
         (Mirrored(i, j) /\ Text(xml[i].item.guid) = Text(xml[j].item.guid)) =>
           /\ MapItem(raw[j]) \notin Range(Pool(raw))
           /\ MapItem(raw[j]) \notin Range(items)
    /\ \A i, j \in 1..Len(items) :
         (i # j /\ items[i].url = items[j].url /\ items[i].url # "") =>
           items[i].id # items[j].id

\* C5 witness: two mirrored items with the same guid, the first one kept and
\* the second one dropped.
C5_Witness ==
  /\ pc = "main"
  /\ \E i, j \in 1..Len(raw) :
       /\ Mirrored(i, j)
       /\ Text(xml[i].item.guid) = Text(xml[j].item.guid)
       /\ MapItem(raw[i]) \in Range(items)
       /\ MapItem(raw[j]) \notin Range(items)

\* ----- Properties of the quota allocator -----

\* the ranked pool's videos, the number reserved, and the pool without them
PoolVideos == SelectSeq(Pool(raw), IsVideo)
Reserved == Min(MIN_VIDEOS, Len(PoolVideos))
ReservedSet == {PoolVideos[i] : i \in 1..Reserved}
Unreserved == SelectSeq(Pool(raw), LAMBDA x : x \notin ReservedSet)

\* C1: the feed buildFeed returns holds at least min(MIN_VIDEOS, P) videos,
\* where P is the number of videos of the deduplicated pool; the min(MIN_VIDEOS, P)
\* most recent videos of the pool are all in it (no video left out is more
\* recent than one of them); and it holds at most MAX_ITEMS records.
C1_QuotaReserved ==
  pc = "main" =>
    /\ Len(items) <= MAX_ITEMS
    /\ Cardinality({i \in 1..Len(items) : IsVideo(items[i])}) >= Reserved
    /\ ReservedSet \subseteq Range(items)
    /\ \A v \in Range(PoolVideos) \ Range(items) :
         \A w \in ReservedSet : GetTime(w.date) >= GetTime(v.date)

\* C1 witness: the pool is larger than MAX_ITEMS and its MAX_ITEMS most recent
\* records hold fewer videos than the reservation, so the reservation decides
\* what is returned.
C1_Witness ==
  /\ pc = "main"
  /\ Len(Pool(raw)) > MAX_ITEMS
  /\ Len(PoolVideos) >= MIN_VIDEOS
  /\ Len(SelectSeq(Slice(Pool(raw), MAX_ITEMS), IsVideo)) < MIN_VIDEOS
  /\ ReservedSet \subseteq Range(items)

\* C2: after the reservation, the remaining budget (MAX_ITEMS minus the number
\* reserved) is filled with the most recent unreserved records of the pool of
\* ALL categories: each of the first MAX_ITEMS - reserved unreserved records,
\* an overflow video included, is in the returned feed.
C2_FillFromAllCategories ==
  pc = "main" =>
    \A i \in 1..Min(MAX_ITEMS - Reserved, Len(Unreserved)) :
      Unreserved[i] \in Range(items)

\* C3: a deduplicated pool of fewer than MAX_ITEMS records is returned whole:
\* the feed has the pool's length and the pool's records.
C3_SmallPoolReturnedWhole ==
  (pc = "main" /\ Len(Pool(raw)) < MAX_ITEMS) =>
    /\ Len(items) = Len(Pool(raw))
    /\ Range(items) = Range(Pool(raw))

\* ----- Properties of the persistence -----
\* C11: at every point of every run, one whose write failed midway included,
\* docs/feed.json is either the file of before the run or the complete
\* collection the run writes (the new feed, or the previous one written back);
\* it is never a truncated or partly written file.
C11_NoPartialWrite ==
  \/ disk = prior
  \/ (payload # NoFeed /\ disk = Stringify(payload))

\* ----- Properties of the date normalization -----
\* the value the normalizer hands to toISO for a parsed item (line 331:
\* pubDate || ... || updated || ... || ""; line 386: snippet.publishedAt)
ResolvedDate(x) ==
  IF x.type = "video" THEN x.item.publishedAt
  ELSE DateOr(x.item.pubDate, DateOr(x.item.updated, [k |-> "empty", t |-> 0]))

\* C12: every parsed item yields a record (normalization does not throw); the
\* record of an item whose resolved date is absent, empty or unparsable is
\* dated at the epoch, instant 0, and the record of any other item at the
\* instant of its date; every record of the returned feed carries a valid
\* instant, the very date its gathered record had before buildFeed
\* normalized it again.
C12_DateNormalized ==
  /\ pc \in {"merge", "main"} =>
       /\ Len(raw) = Len(xml)
       /\ \A i \in 1..Len(raw) :
            LET src == ResolvedDate(xml[i])
            IN /\ src.k \in {"undef", "empty", "bad"} => raw[i].date = Iso(0)
               /\ src.k \in {"rfc", "iso"} => raw[i].date = Iso(src.t)
  /\ pc = "main" =>
       \A i \in 1..Len(items) :
         /\ items[i].date.k = "iso"
         /\ items[i].date.t \in 0..MaxDate
         /\ \E j \in 1..Len(raw) : raw[j].id = items[i].id /\ raw[j].date = items[i].date

\* C12 witness: an item with an unparsable date and an item with a parsable,
\* non-ISO date after the epoch are both in the feed, the first dated at the
\* epoch and ranked after the second.
C12_Witness ==
  /\ pc = "main"
  /\ \E i, j \in 1..Len(xml) : \E h, k \in 1..Len(items) :
       /\ ResolvedDate(xml[i]).k = "bad"
       /\ ResolvedDate(xml[j]).k = "rfc" /\ ResolvedDate(xml[j]).t > 0
       /\ items[h].id = raw[i].id /\ items[h].date = Iso(0)
       /\ items[k].id = raw[j].id /\ items[k].date = Iso(ResolvedDate(xml[j]).t)
       /\ k < h

\* ----- Properties of the ranking -----
\* the position of record x in the sequence s
PosIn(s, x) == CHOOSE i \in 1..Len(s) : s[i] = x

\* C13, as claimed: the returned feed is in descending order of timestamp, and
\* two of its records with the same timestamp are in the order they had in
\* the deduplicated, ranked pool.
C13_TiesInPoolOrder ==
  pc = "main" =>
    LET pool == Pool(raw)
    IN \A i, j \in 1..Len(items) :
         i < j =>
           /\ GetTime(items[i].date) >= GetTime(items[j].date)
           /\ GetTime(items[i].date) = GetTime(items[j].date) =>
                PosIn(pool, items[i]) < PosIn(pool, items[j])

\* C13, amended: the returned feed is in descending order of timestamp; of
\* two of its records with the same timestamp, a reserved video comes before
\* a filler record, and two reserved videos or two filler records are in the
\* order they had in the deduplicated, ranked pool.
C13_TiesReservedFirst ==
  pc = "main" =>
    LET pool == Pool(raw)
        reserved == ReservedSet
    IN \A i, j \in 1..Len(items) :
         i < j =>
           /\ GetTime(items[i].date) >= GetTime(items[j].date)
           /\ GetTime(items[i].date) = GetTime(items[j].date) =>
                IF (items[i] \in reserved) = (items[j] \in reserved)
                THEN PosIn(pool, items[i]) < PosIn(pool, items[j])
                ELSE items[i] \in reserved

\* C13 witness: the feed holds a filler record ranked before a less recent
\* reserved video, and a reserved video ranked before a filler record of the
\* same timestamp that precedes it in the pool.
C13_Witness ==
  /\ pc = "main"
  /\ \E i, j \in 1..Len(items) :
       /\ i < j
       /\ items[i] \notin ReservedSet /\ items[j] \in ReservedSet
       /\ GetTime(items[i].date) > GetTime(items[j].date)
  /\ \E i, j \in 1..Len(items) :
       /\ i < j
       /\ items[i] \in ReservedSet /\ items[j] \notin ReservedSet
       /\ GetTime(items[i].date) = GetTime(items[j].date)
       /\ PosIn(Pool(raw), items[j]) < PosIn(Pool(raw), items[i])

====
